---- MODULE Spec2Model ----
(***************************************************************************)
(* Tool-invocation pipeline of ggMCP4VSCode: RequestHandler                *)
(* (handleToolExecution, executeToolDirect), the interceptor chain it      *)
(* drives and the replies it sends.  Each invocation is an async function; *)
(* it is cut into steps at its await points, and several invocations may   *)
(* be interleaved at those points.  The second part models the file tools  *)
(* of fileReadWriteTools.ts as handlers of that pipeline, with the         *)
(* authoritative store, the content cache and the timers they schedule.    *)
(***************************************************************************)
EXTENDS Integers, Sequences, FiniteSets, TLC

VARIABLES inv, store, cache, timers, fh, reg, ed

fvars == <<store, cache, timers, fh>>

avars == <<reg, ed>>

vars == <<inv, store, cache, timers, fh, reg, ed>>

(* ---------------------------------------------------------------- bounds *)
MaxInv == 2

Invs == 1..MaxInv

(* ------------------------------------------------------------ input sets *)
MutatingTools ==
    {"rewrite_file_content", "create_new_file_with_text",
     "replace_file_content_at_position", "append_file_content",
     "replace_specific_text"}

FileTools == {"get_file_text_by_path"} \cup MutatingTools

RegisteredTools == FileTools

ToolNames == {"get_file_text_by_path", "no_such_tool"}

(* params as delivered by the transport, and every params value a context
   can carry once an interceptor has replaced it *)
TransportParams == {"p0"}

Params == TransportParams \cup {"p1"}

Interceptors == <<"A", "B", "C">>

NumInterceptors == Len(Interceptors)

BeforeOutcomes == {"pass", "transform", "cache", "cancel", "throw"}

AfterOutcomes == {"pass", "rewrite", "throw"}

HandlerOutcomes == {"success", "failure", "throw"}

(* ------------------------------------------------------ response builder *)
Success(data) == [isError |-> FALSE, text |-> data]

Failure(message) == [isError |-> TRUE, text |-> message]

CachedResponse == Success(<<"cached">>)

JsonReply(statusCode, body) ==
    [via |-> "sendJsonResponse", status |-> statusCode, body |-> body]

SendResponse(responseContext) ==
    [via |-> "sendResponse", status |-> responseContext.statusCode,
     body |-> responseContext.response]

HandleServerError(error) ==
    [via |-> "handleServerError", status |-> 500, body |-> Failure(<<error>>)]

ReturnValue(body) == [via |-> "return", status |-> 0, body |-> body]

(* ---------------------------------------------------------- tool registry *)
GetToolByName(toolName) == toolName \in RegisteredTools

(* ------------------------------------------------------ invocation record *)
(* pc: idle, before (a before-hook is running), exec (tool.handle is
   running), after (an after-hook is running), done.  ctx, hookArg,
   handlerArgs and resp hold zero or one value.  trace lists, in order, the
   hooks called, the handler call and the reply.  afterAbort records that
   the invocation arrived after another one had been aborted by a throwing
   interceptor hook. *)
NoInvocation ==
    [pc |-> "idle", entry |-> "none", toolName |-> "", params |-> "",
     ctx |-> <<>>, processed |-> "pending", idx |-> 0, trace |-> <<>>,
     hookArg |-> <<>>, handlerArgs |-> <<>>, threw |-> "none",
     cancelledBy |-> 0, cacheHitBy |-> 0, resp |-> <<>>, replies |-> <<>>,
     afterAbort |-> FALSE]

RequestContext(toolName, params) ==
    [toolName |-> toolName, params |-> params, cachedResponse |-> <<>>]

ResponseContext(result) == [response |-> result, statusCode |-> 200]

Reply(r, reply) ==
    [r EXCEPT !.pc = "done",
              !.replies = Append(@, reply),
              !.trace = Append(@, <<"reply", 0>>)]

(* variant: the error escapes handleToolExecution and nothing is sent *)
CatchServerError_Rethrows(r, where, error) ==
    [r EXCEPT !.threw = where, !.pc = "done"]

(* catch block of handleToolExecution *)
CatchServerError(r, where, error) ==
    Reply([r EXCEPT !.threw = where], HandleServerError(error))

(* tool.handle(args) is called: the handler starts with these arguments *)
InvokeHandler(r, args) ==
    [r EXCEPT !.pc = "exec",
              !.handlerArgs = <<args>>,
              !.trace = Append(@, <<"handle", 0>>)]

(* ----------------------------------------------------- interceptor chain *)
(* context handed to the before-hook of interceptor k *)
BeforeHookArg(r, k) == r.ctx[1]

(* the chain calls the before-hook of interceptor k and awaits it *)
CallBeforeHook(r, k) ==
    [r EXCEPT !.pc = "before", !.idx = k,
              !.hookArg = <<BeforeHookArg(r, k)>>,
              !.trace = Append(@, <<"before", k>>)]

(* the chain calls the after-hook of interceptor k and awaits it *)
CallAfterHook(r, k) ==
    [r EXCEPT !.pc = "after", !.idx = k,
              !.trace = Append(@, <<"after", k>>)]

(* variant: the before-phase does not stop at a cached response *)
BeforeChainContinues_NoBreak(k, ctx) == k < NumInterceptors

(* does the before-phase go on to interceptor k + 1 after k returned ctx? *)
BeforeChainContinues(k, ctx) ==
    k < NumInterceptors /\ ctx.cachedResponse = <<>>

(* does the after-phase go on to interceptor k + 1? *)
AfterChainContinues(k) == k < NumInterceptors

(* what a before-hook returns, given the context it received *)
BeforeHookResult(arg, outcome, newParams) ==
    CASE outcome = "pass" -> arg
      [] outcome = "transform" -> [arg EXCEPT !.params = newParams]
      [] outcome = "cache" -> [arg EXCEPT !.cachedResponse = <<CachedResponse>>]

(* what an after-hook returns, given the response context it received *)
AfterHookResult(responseContext, outcome) ==
    CASE outcome = "pass" -> responseContext
      [] outcome = "rewrite" ->
            [responseContext EXCEPT !.response = Success(<<"rewritten">>)]

(* ------------------------------------------------- handleToolExecution *)
UnknownToolReply(toolName) ==
    JsonReply(404, Failure(<<"Unknown tool: ", toolName>>))

CancelReply == JsonReply(200, Failure(<<"Request cancelled by interceptor">>))

CachedReply(requestContext) == JsonReply(200, requestContext.cachedResponse[1])

(* variant: the lookup result is not tested *)
HandleToolExecution_NoLookup(toolName, params) ==
    CallBeforeHook(
        [NoInvocation EXCEPT !.entry = "http",
                             !.toolName = toolName,
                             !.params = params,
                             !.ctx = <<RequestContext(toolName, params)>>], 1)

(* lines 352-375: lookup, request context, start of the before-phase *)
HandleToolExecution(toolName, params) ==
    LET r == [NoInvocation EXCEPT !.entry = "http",
                                  !.toolName = toolName,
                                  !.params = params]
    IN  IF ~GetToolByName(toolName)
        THEN Reply(r, UnknownToolReply(toolName))
        ELSE CallBeforeHook(
                 [r EXCEPT !.ctx = <<RequestContext(toolName, params)>>], 1)

(* the arguments of tool.handle at line 404 *)
HandlerArguments(r) == r.params

(* variant: a null processedContext is not tested *)
BeforePhaseReturned_IgnoresNull(r, isNull) ==
    LET q == [r EXCEPT !.processed = IF isNull THEN "null" ELSE "ctx"]
    IN  IF q.ctx[1].cachedResponse # <<>>
        THEN Reply(q, CachedReply(q.ctx[1]))
        ELSE InvokeHandler(q, HandlerArguments(q))

(* variant: a cached response is not tested *)
BeforePhaseReturned_IgnoresCache(r, isNull) ==
    IF isNull
    THEN Reply([r EXCEPT !.processed = "null"], CancelReply)
    ELSE InvokeHandler([r EXCEPT !.processed = "ctx"], HandlerArguments(r))

(* variant: the cancellation branch sends its reply but does not return *)
BeforePhaseReturned_NoReturn(r, isNull) ==
    LET q == IF isNull
             THEN Reply([r EXCEPT !.processed = "null"], CancelReply)
             ELSE [r EXCEPT !.processed = "ctx"]
    IN  IF q.ctx[1].cachedResponse # <<>>
        THEN Reply(q, CachedReply(q.ctx[1]))
        ELSE InvokeHandler(q, HandlerArguments(q))

(* lines 378-404: the before-phase has returned processedContext *)
BeforePhaseReturned(r, isNull) ==
    IF isNull
    THEN Reply([r EXCEPT !.processed = "null"], CancelReply)
    ELSE LET q == [r EXCEPT !.processed = "ctx"]
         IN  IF q.ctx[1].cachedResponse # <<>>
             THEN Reply(q, CachedReply(q.ctx[1]))
             ELSE InvokeHandler(q, HandlerArguments(q))

(* variant: the result is sent without the after-phase *)
HandlerSettledHttp_SkipsAfterPhase(r, outcome) ==
    CASE outcome = "throw" -> CatchServerError(r, "handler", "boom")
      [] outcome = "success" ->
            Reply(r, SendResponse(ResponseContext(Success(<<"result">>))))
      [] outcome = "failure" ->
            Reply(r, SendResponse(ResponseContext(Failure(<<"tool failed">>))))

(* lines 404-417: tool.handle has returned result; the after-phase starts *)
HandlerReturned(r, result) ==
    CallAfterHook([r EXCEPT !.resp = <<ResponseContext(result)>>], 1)

(* lines 404-417 and the catch at 430-432: tool.handle has settled *)
HandlerSettledHttp(r, outcome) ==
    CASE outcome = "throw" -> CatchServerError(r, "handler", "boom")
      [] outcome = "success" -> HandlerReturned(r, Success(<<"result">>))
      [] outcome = "failure" -> HandlerReturned(r, Failure(<<"tool failed">>))

(* line 429: the after-phase has returned responseContext *)
AfterPhaseReturned(r) == Reply(r, SendResponse(r.resp[1]))

(* --------------------------------------------------- executeToolDirect *)
(* lines 461-470 *)
ExecuteToolDirect(toolName, args) ==
    LET r == [NoInvocation EXCEPT !.entry = "direct",
                                  !.toolName = toolName,
                                  !.params = args]
    IN  IF ~GetToolByName(toolName)
        THEN Reply(r, ReturnValue(Failure(<<"Unknown tool: ", toolName>>)))
        ELSE InvokeHandler(r, args)

(* lines 470-476 *)
HandlerSettledDirect(r, outcome) ==
    CASE outcome = "throw" ->
            Reply([r EXCEPT !.threw = "handler"], ReturnValue(Failure(<<"boom">>)))
      [] outcome = "success" -> Reply(r, ReturnValue(Success(<<"result">>)))
      [] outcome = "failure" -> Reply(r, ReturnValue(Failure(<<"tool failed">>)))

(* ------------------------------------------------- protocol meta-requests *)
(* lines 228-239 and 445-454: the tool definitions, read from the registry *)
ToolsList == [tools |-> RegisteredTools]

(* variant: the listing is produced by running a tool through the chain *)
HandleListTools_ThroughChain ==
    CallBeforeHook(
        [NoInvocation EXCEPT !.entry = "listTools",
                             !.ctx = <<RequestContext("tools/list", "p0")>>], 1)

(* lines 224-246 *)
HandleListTools ==
    Reply([NoInvocation EXCEPT !.entry = "listTools"], JsonReply(200, ToolsList))

(* lines 254-273 *)
HandleStatusRequest(type) ==
    Reply([NoInvocation EXCEPT !.entry = type],
          JsonReply(200, [jsonrpc |-> type, tools |-> {}]))

(* lines 444-455 *)
GetToolsList ==
    Reply([NoInvocation EXCEPT !.entry = "toolsList"], ReturnValue(ToolsList))

MetaEntries == {"listTools", "initialize", "status", "toolsList"}

(* ------------------------------------- interceptor chain, one hook settles *)
(* processBeforeRequest: the before-hook of interceptor r.idx has settled *)
ProcessBeforeRequest(r, outcome, newParams) ==
    LET k == r.idx
        s == [r EXCEPT !.hookArg = <<>>]
    IN  CASE outcome = "throw" -> CatchServerError(s, "before", "hook failed")
          [] outcome = "cancel" ->
                BeforePhaseReturned([s EXCEPT !.cancelledBy = k], TRUE)
          [] OTHER ->
                LET result == BeforeHookResult(r.hookArg[1], outcome, newParams)
                    t == [s EXCEPT !.ctx = <<result>>,
                                   !.cacheHitBy =
                                       IF result.cachedResponse # <<>> /\ @ = 0
                                       THEN k ELSE @]
                IN  IF BeforeChainContinues(k, result)
                    THEN CallBeforeHook(t, k + 1)
                    ELSE BeforePhaseReturned(t, FALSE)

(* processAfterResponse: the after-hook of interceptor r.idx has settled *)
ProcessAfterResponse(r, outcome) ==
    LET k == r.idx
    IN  CASE outcome = "throw" -> CatchServerError(r, "after", "hook failed")
          [] OTHER ->
                LET t == [r EXCEPT !.resp = <<AfterHookResult(r.resp[1], outcome)>>]
                IN  IF AfterChainContinues(k)
                    THEN CallAfterHook(t, k + 1)
                    ELSE AfterPhaseReturned(t)

(* ------------------------------------------------------------ file state *)
(* One workspace file.  A text is the sequence of its lines.  store[p]
   holds zero or one text: <<>> is a missing file.  cache[p].entry holds
   zero or one text: <<>> is a cache miss; cache[p].invalidated records that
   the entry was last removed by invalidate.  timers is the queue of the
   callbacks given to setTimeout(0), oldest first. *)
Paths == {"f"}

OriginalText == <<"o">>

NoEntry == [entry |-> <<>>, invalidated |-> FALSE]

(* the text argument of the mutating tools, and the text to be replaced *)
Contents == {"x", "y"}

OldText == "o"

(* startLine of replace_file_content_at_position; endLine = startLine *)
StartLines == {0, 1}

(* pc: idle, mkdir, exists, reading, writing (the awaited call that has not
   settled), returned.  seen is the store's content when the pending read
   was issued, cur the text the read delivered, newContent the text handed
   to writeFileSimple, result the envelope returned by execute.  wrote,
   upd (none, scheduled, ok, failed), opened, readFrom (none, cache,
   store) and afterInval record what has happened to the invocation;
   pending holds the text of the store when the call was made, if the cache
   update of a write on the path was then still waiting in the timer
   queue. *)
NoFile ==
    [tool |-> "", path |-> "", text |-> "", startLine |-> 0, pc |-> "idle",
     seen |-> <<>>, cur |-> <<>>, newContent |-> <<>>, wrote |-> FALSE,
     result |-> <<>>, upd |-> "none", opened |-> FALSE, readFrom |-> "none",
     afterInval |-> FALSE, pending |-> <<>>]

(* ------------------------------------------- registry and edit records *)
(* reg.tools is the registry, in registration order; reg.first[name] holds
   the definition first registered under name, if any; reg.last is the
   outcome of the last registry operation. *)
ToolDefNames ==
    {"get_file_text_by_path", "append_file_content", "replace_specific_text"}

ToolDescriptions == {"d1", "d2"}

ToolDefinitions == [name : ToolDefNames, description : ToolDescriptions]

NoRegistry ==
    [tools |-> <<>>, first |-> [n \in ToolDefNames |-> <<>>],
     last |-> [op |-> "none", name |-> "", outcome |-> "none", def |-> <<>>]]

(* ed.file is the text of the file, a sequence of characters; ed.calls
   lists the calls of the edit tools made on it, each with its arguments,
   the text before and after, and what execute did. *)
NoEdit == [file |-> <<>>, exists |-> TRUE, calls |-> <<>>]

(* ----------------------------------------------------------------- steps *)
Init ==
    /\ inv = [i \in Invs |-> NoInvocation]
    /\ store = [p \in Paths |-> <<OriginalText>>]
    /\ cache = [p \in Paths |-> NoEntry]
    /\ timers = <<>>
    /\ fh = [i \in Invs |-> NoFile]
    /\ reg = NoRegistry
    /\ ed = NoEdit

(* has some invocation been aborted by a throwing interceptor hook? *)
SomeAborted == \E j \in Invs : inv[j].threw \in {"before", "after"}

CallHandleToolExecution(i) ==
    /\ inv[i].pc = "idle"
    /\ \E toolName \in ToolNames, params \in TransportParams :
          inv' = [inv EXCEPT ![i] =
                    [HandleToolExecution(toolName, params)
                        EXCEPT !.afterAbort = SomeAborted]]
    /\ UNCHANGED fvars
    /\ UNCHANGED avars

CallExecuteToolDirect(i) ==
    /\ inv[i].pc = "idle"
    /\ \E toolName \in ToolNames, args \in TransportParams :
          inv' = [inv EXCEPT ![i] = ExecuteToolDirect(toolName, args)]
    /\ UNCHANGED fvars
    /\ UNCHANGED avars

BeforeRequest(i) ==
    /\ inv[i].pc = "before"
    /\ \E outcome \in BeforeOutcomes :
          \E newParams \in (IF outcome = "transform"
                            THEN Params \ {inv[i].hookArg[1].params}
                            ELSE {inv[i].hookArg[1].params}) :
             inv' = [inv EXCEPT ![i] = ProcessBeforeRequest(@, outcome, newParams)]
    /\ UNCHANGED fvars
    /\ UNCHANGED avars

ToolHandle(i) ==
    /\ inv[i].pc = "exec"
    /\ \E outcome \in HandlerOutcomes :
          inv' = [inv EXCEPT ![i] =
                    IF @.entry = "http" THEN HandlerSettledHttp(@, outcome)
                    ELSE HandlerSettledDirect(@, outcome)]
    /\ UNCHANGED fvars
    /\ UNCHANGED avars

AfterResponse(i) ==
    /\ inv[i].pc = "after"
    /\ \E outcome \in AfterOutcomes :
          inv' = [inv EXCEPT ![i] = ProcessAfterResponse(@, outcome)]
    /\ UNCHANGED fvars
    /\ UNCHANGED avars

CallHandleListTools(i) ==
    /\ inv[i].pc = "idle"
    /\ inv' = [inv EXCEPT ![i] = HandleListTools]
    /\ UNCHANGED fvars
    /\ UNCHANGED avars

CallHandleStatusRequest(i) ==
    /\ inv[i].pc = "idle"
    /\ \E type \in {"initialize", "status"} :
          inv' = [inv EXCEPT ![i] = HandleStatusRequest(type)]
    /\ UNCHANGED fvars
    /\ UNCHANGED avars

CallGetToolsList(i) ==
    /\ inv[i].pc = "idle"
    /\ inv' = [inv EXCEPT ![i] = GetToolsList]
    /\ UNCHANGED fvars
    /\ UNCHANGED avars

Next ==
    \E i \in Invs :
        \/ CallHandleToolExecution(i)
        \/ CallExecuteToolDirect(i)
        \/ CallHandleListTools(i)
        \/ CallHandleStatusRequest(i)
        \/ CallGetToolsList(i)
        \/ BeforeRequest(i)
        \/ ToolHandle(i)
        \/ AfterResponse(i)

Spec == Init /\ [][Next]_vars

(* every awaited hook and handler settles: a started invocation is resumed *)
Resume(i) == BeforeRequest(i) \/ ToolHandle(i) \/ AfterResponse(i)

(* handleToolExecution alone, every started invocation being resumed *)
LiveNext == \E i \in Invs : CallHandleToolExecution(i) \/ Resume(i)

LiveSpec == Init /\ [][LiveNext]_vars /\ \A i \in Invs : WF_vars(Resume(i))

(* ------------------------------------------------------------ file tools *)
(* The handlers of fileReadWriteTools.ts.  A handler runs until its next
   awaited call; when that call settles it runs on to the following one or
   to its return.  A store read delivers the content the store had at some
   moment between the call and its settling. *)

(* execute returns: the promise of tool.handle resolves with result *)
Return(f, result) == [f EXCEPT !.pc = "returned", !.result = <<result>>]

(* AbsFileTools.handleFileSystemError: a failure envelope, the error logged *)
HandleFileSystemError(f, operation) ==
    Return(f, Failure(<<"Error ", operation, " file">>))

(* FileCache.updateCache: the entry is replaced as a whole *)
UpdateCache(c, text) == [entry |-> <<text>>, invalidated |-> FALSE]

(* variant: invalidate leaves the entry in place *)
Invalidate_KeepsEntry(c) == [c EXCEPT !.invalidated = TRUE]

(* FileCache.invalidate: the entry is removed *)
Invalidate(c) == [entry |-> <<>>, invalidated |-> TRUE]

(* variant: the catch handler only logs *)
OnUpdateCacheFailed_LogsOnly(c) == c

(* lines 169-172, 239-242, 427-430, 513-516, 617-620: the catch handler of
   FileCache.updateCache *)
OnUpdateCacheFailed(c) == Invalidate(c)

(* variant: the read is served from the cache entry when there is one *)
ReadFile_ServedFromCache(f) ==
    [f EXCEPT !.pc = "reading",
              !.seen = IF cache[f.path].entry # <<>> THEN cache[f.path].entry
                       ELSE store[f.path]]

(* this.readFile(fileUri), vscode.workspace.fs.readFile(fileUri) and the
   store read of getFileContent on a miss: the read is pending *)
ReadFile(f) == [f EXCEPT !.pc = "reading", !.seen = store[f.path]]

(* variant: the write is started and the response built without awaiting it *)
WriteFileSimple_NotAwaited(f, newContent) ==
    Return([f EXCEPT !.newContent = <<newContent>>, !.upd = "scheduled"],
           Success(<<"ok">>))

(* await this.writeFileSimple(fileUri, text, {...}): the write is pending *)
WriteFileSimple(f, newContent) ==
    [f EXCEPT !.pc = "writing", !.newContent = <<newContent>>]

(* the mustExist option of the five writeFileSimple calls *)
MustExist(tool) == tool # "create_new_file_with_text"

(* AbsFileTools.getFileContent(path, true): the cached text if there is one,
   otherwise a store read *)
GetFileContent(f) ==
    IF cache[f.path].entry # <<>>
    THEN Return([f EXCEPT !.cur = cache[f.path].entry, !.readFrom = "cache"],
                Success(cache[f.path].entry[1]))
    ELSE ReadFile(f)

(* lines 379-412: lines startLine..endLine replaced, endLine = startLine *)
ReplaceLines(cur, startLine, text) ==
    SubSeq(cur, 1, startLine - 1) \o <<text>> \o SubSeq(cur, startLine + 1, Len(cur))

(* lines 590-596: every occurrence of oldText replaced *)
ReplaceAll(cur, oldText, text) ==
    [k \in 1..Len(cur) |-> IF cur[k] = oldText THEN text ELSE cur[k]]

(* the text of the store, if a cache update for the path waits in the timer
   queue: the text of the last write, whose response has been returned *)
PendingWrite(path) ==
    IF \E k \in 1..Len(timers) :
           timers[k].kind = "updateCache" /\ timers[k].path = path
    THEN store[path] ELSE <<>>

(* the call of execute up to its first awaited call *)
Execute(tool, path, text, startLine) ==
    LET f == [NoFile EXCEPT !.tool = tool, !.path = path, !.text = text,
                            !.startLine = startLine,
                            !.afterInval = cache[path].invalidated,
                            !.pending = PendingWrite(path)]
    IN  CASE tool = "get_file_text_by_path" -> GetFileContent(f)
          [] tool = "rewrite_file_content" -> WriteFileSimple(f, <<text>>)
          [] tool = "create_new_file_with_text" -> [f EXCEPT !.pc = "mkdir"]
          [] tool = "replace_file_content_at_position" -> ReadFile(f)
          [] tool = "append_file_content" -> [f EXCEPT !.pc = "exists"]
          [] tool = "replace_specific_text" -> ReadFile(f)

(* the catch block of execute *)
CatchBlock(f, operation) ==
    IF f.tool = "replace_specific_text"
    THEN Return(f, Failure(<<"replacement failed">>))
    ELSE HandleFileSystemError(f, operation)

(* the awaited read has settled with content (<<>>: the read threw) *)
AfterRead(f, content) ==
    IF content = <<>>
    THEN CatchBlock(f, "reading")
    ELSE LET g == [f EXCEPT !.cur = content, !.readFrom = "store"]
             cur == content[1]
         IN  CASE f.tool = "get_file_text_by_path" -> Return(g, Success(cur))
               [] f.tool = "replace_file_content_at_position" ->
                     IF f.startLine < 1 \/ f.startLine > Len(cur)
                     THEN Return(g, Failure(<<"Invalid line numbers">>))
                     ELSE WriteFileSimple(g, ReplaceLines(cur, f.startLine, f.text))
               [] f.tool = "append_file_content" ->
                     WriteFileSimple(g, cur \o <<f.text>>)
               [] f.tool = "replace_specific_text" ->
                     IF \A k \in 1..Len(cur) : cur[k] # OldText
                     THEN Return(g, Failure(<<"no occurrences found">>))
                     ELSE WriteFileSimple(g, ReplaceAll(cur, OldText, f.text))

(* the awaited writeFileSimple has resolved: the response is built and the
   deferred steps are scheduled *)
WriteSucceeded(f) ==
    Return([f EXCEPT !.wrote = TRUE, !.upd = "scheduled"], Success(<<"ok">>))

(* variant: the cache update carries the text that was read *)
UpdateCacheTimer_CarriesTextRead(i, f) ==
    [kind |-> "updateCache", inv |-> i, path |-> f.path, text |-> f.cur]

(* the timer callback: FileCache.updateCache, then a second timer *)
UpdateCacheTimer(i, f) ==
    [kind |-> "updateCache", inv |-> i, path |-> f.path, text |-> f.newContent]

OpenInEditorTimer(t) == [t EXCEPT !.kind = "openFileInEditorTab", !.text = <<>>]

(* variant: a failed cache update replaces the result of the call *)
UpdateCacheSettled_Surfaces(f, ok) ==
    IF ok THEN [f EXCEPT !.upd = "ok"]
    ELSE [f EXCEPT !.upd = "failed",
                   !.result = <<Failure(<<"cache update failed">>)>>]

(* FileCache.updateCache has settled; a failure is logged *)
UpdateCacheSettled(f, ok) == [f EXCEPT !.upd = IF ok THEN "ok" ELSE "failed"]

(* handleToolExecution with every before-hook passing the context on *)
RECURSIVE PassBeforeHooks(_)
PassBeforeHooks(r) ==
    IF r.pc = "before"
    THEN PassBeforeHooks(ProcessBeforeRequest(r, "pass", r.hookArg[1].params))
    ELSE r

(* tool.handle stays pending, or has returned and the after-phase starts *)
HandlerProgress(r, f) ==
    IF f.result # <<>> THEN HandlerReturned(r, f.result[1]) ELSE r

FileInit ==
    /\ inv = [i \in Invs |-> NoInvocation]
    /\ store \in [Paths -> {<<>>, <<OriginalText>>}]
    /\ cache \in [Paths -> {NoEntry, UpdateCache(NoEntry, OriginalText)}]
    /\ \A p \in Paths : cache[p].entry \in {<<>>, store[p]}
    /\ timers = <<>>
    /\ fh = [i \in Invs |-> NoFile]
    /\ reg = NoRegistry
    /\ ed = NoEdit

(* a tool call arrives and its handler runs to its first awaited call *)
CallFileTool(i) ==
    /\ inv[i].pc = "idle"
    /\ \E tool \in FileTools, path \in Paths, text \in Contents,
          startLine \in StartLines :
          /\ tool = "get_file_text_by_path" => text = "x"
          /\ tool # "replace_file_content_at_position" => startLine = 1
          /\ LET f == Execute(tool, path, text, startLine)
                 r == PassBeforeHooks(
                          HandleToolExecution(tool, "p0"))
             IN  /\ fh' = [fh EXCEPT ![i] = f]
                 /\ inv' = [inv EXCEPT ![i] = HandlerProgress(r, f)]
    /\ UNCHANGED <<store, cache, timers>>
    /\ UNCHANGED avars

(* lines 217-222: vscode.workspace.fs.createDirectory has settled *)
CreateDirectorySettled(i) ==
    /\ fh[i].pc = "mkdir"
    /\ \E ok \in BOOLEAN :
          LET f == IF ok THEN WriteFileSimple(fh[i], <<fh[i].text>>)
                   ELSE CatchBlock(fh[i], "creating")
          IN  /\ fh' = [fh EXCEPT ![i] = f]
              /\ inv' = [inv EXCEPT ![i] = HandlerProgress(@, f)]
    /\ UNCHANGED <<store, cache, timers>>
    /\ UNCHANGED avars

(* lines 484-489: this.fileExists has settled *)
FileExistsSettled(i) ==
    /\ fh[i].pc = "exists"
    /\ LET f == IF store[fh[i].path] = <<>>
                THEN Return(fh[i], Failure(<<"File does not exist">>))
                ELSE ReadFile(fh[i])
       IN  /\ fh' = [fh EXCEPT ![i] = f]
           /\ inv' = [inv EXCEPT ![i] = HandlerProgress(@, f)]
    /\ UNCHANGED <<store, cache, timers>>
    /\ UNCHANGED avars

(* the awaited read has settled; getFileContent stores what it read *)
ReadSettled(i) ==
    /\ fh[i].pc = "reading"
    /\ \E content \in {fh[i].seen, store[fh[i].path]} :
          LET f == AfterRead(fh[i], content)
          IN  /\ fh' = [fh EXCEPT ![i] = f]
              /\ inv' = [inv EXCEPT ![i] = HandlerProgress(@, f)]
              /\ cache' = IF fh[i].tool = "get_file_text_by_path" /\ content # <<>>
                          THEN [cache EXCEPT ![fh[i].path] = UpdateCache(@, content[1])]
                          ELSE cache
    /\ UNCHANGED <<store, timers>>
    /\ UNCHANGED avars

(* the awaited writeFileSimple has settled *)
WriteSettled(i) ==
    /\ fh[i].pc = "writing"
    /\ \E ok \in BOOLEAN :
          LET written == ok /\ (MustExist(fh[i].tool) => store[fh[i].path] # <<>>)
              f == IF written THEN WriteSucceeded(fh[i])
                   ELSE CatchBlock(fh[i], "writing")
          IN  /\ fh' = [fh EXCEPT ![i] = f]
              /\ inv' = [inv EXCEPT ![i] = HandlerProgress(@, f)]
              /\ store' = IF written
                          THEN [store EXCEPT ![fh[i].path] = fh[i].newContent]
                          ELSE store
              /\ timers' = IF written
                           THEN Append(timers, UpdateCacheTimer(i, fh[i]))
                           ELSE timers
    /\ UNCHANGED cache
    /\ UNCHANGED avars

(* an after-hook of a file tool call has settled, passing the response on *)
FileAfterResponse(i) ==
    /\ inv[i].pc = "after"
    /\ inv' = [inv EXCEPT ![i] = ProcessAfterResponse(@, "pass")]
    /\ UNCHANGED fvars
    /\ UNCHANGED avars

(* the first timer fires: FileCache.updateCache runs, the second timer is set *)
RunUpdateCache ==
    /\ timers # <<>>
    /\ Head(timers).kind = "updateCache"
    /\ \E ok \in BOOLEAN :
          LET t == Head(timers)
          IN  /\ cache' = [cache EXCEPT ![t.path] =
                              IF ok THEN UpdateCache(@, t.text[1])
                              ELSE OnUpdateCacheFailed(@)]
              /\ fh' = [fh EXCEPT ![t.inv] = UpdateCacheSettled(@, ok)]
              /\ timers' = Append(Tail(timers), OpenInEditorTimer(t))
    /\ UNCHANGED <<inv, store>>
    /\ UNCHANGED avars

(* the second timer fires: this.openFileInEditorTab *)
RunOpenInEditor ==
    /\ timers # <<>>
    /\ Head(timers).kind = "openFileInEditorTab"
    /\ fh' = [fh EXCEPT ![Head(timers).inv].opened = TRUE]
    /\ timers' = Tail(timers)
    /\ UNCHANGED <<inv, store, cache>>
    /\ UNCHANGED avars

FileNext ==
    \/ \E i \in Invs :
          \/ CallFileTool(i)
          \/ CreateDirectorySettled(i)
          \/ FileExistsSettled(i)
          \/ ReadSettled(i)
          \/ WriteSettled(i)
          \/ FileAfterResponse(i)
    \/ RunUpdateCache
    \/ RunOpenInEditor

FileSpec == FileInit /\ [][FileNext]_vars

(* ---------------------------------------------------- registry operations *)
(* ToolManager.getToolByName: the definition registered under name, or
   nothing *)
LookupTool(tools, name) ==
    LET found == {k \in 1..Len(tools) : tools[k].name = name}
    IN  IF found = {} THEN <<>>
        ELSE <<tools[CHOOSE k \in found : \A j \in found : k <= j]>>

RegistryResult(op, name, outcome, def) ==
    [op |-> op, name |-> name, outcome |-> outcome, def |-> def]

(* variant: a second registration replaces the definition *)
RegisterTool_Overwrites(r, def) ==
    IF LookupTool(r.tools, def.name) # <<>>
    THEN [r EXCEPT !.tools = [k \in 1..Len(@) |->
                                 IF @[k].name = def.name THEN def ELSE @[k]],
                   !.last = RegistryResult("register", def.name, "registered", <<def>>)]
    ELSE [r EXCEPT !.tools = Append(@, def),
                   !.first[def.name] = <<def>>,
                   !.last = RegistryResult("register", def.name, "registered", <<def>>)]

(* ToolManager.register(definition) *)
RegisterTool(r, def) ==
    IF LookupTool(r.tools, def.name) # <<>>
    THEN [r EXCEPT !.last = RegistryResult("register", def.name,
                                           "DuplicateNameError", <<def>>)]
    ELSE [r EXCEPT !.tools = Append(@, def),
                   !.first[def.name] = <<def>>,
                   !.last = RegistryResult("register", def.name, "registered", <<def>>)]

(* lines 353-362: const tool = this.toolManager.getToolByName(toolName);
   if (!tool) ... *)
GetToolByNameResult(r, name) ==
    LET tool == LookupTool(r.tools, name)
    IN  [r EXCEPT !.last = RegistryResult("lookup", name,
                               IF tool = <<>> THEN "notFound" ELSE "found", tool)]

RegInit ==
    /\ inv = [i \in Invs |-> NoInvocation]
    /\ store = [p \in Paths |-> <<OriginalText>>]
    /\ cache = [p \in Paths |-> NoEntry]
    /\ timers = <<>>
    /\ fh = [i \in Invs |-> NoFile]
    /\ reg = NoRegistry
    /\ ed = NoEdit

CallRegister ==
    /\ \E def \in ToolDefinitions : reg' = RegisterTool(reg, def)
    /\ UNCHANGED <<inv, fvars, ed>>

CallGetToolByName ==
    /\ \E name \in ToolDefNames : reg' = GetToolByNameResult(reg, name)
    /\ UNCHANGED <<inv, fvars, ed>>

RegNext == CallRegister \/ CallGetToolByName

RegSpec == RegInit /\ [][RegNext]_vars

(* ------------------------------------------------------ string primitives *)
(* A string is a sequence of characters; "CR" and "LF" are the carriage
   return and the line feed. *)
MaxFileLen == 4

MaxContentLen == 2

MaxLine == 3

CRLF == <<"CR", "LF">>

RECURSIVE StringsUpTo(_, _)
StringsUpTo(chars, n) ==
    IF n = 0 THEN {<<>>}
    ELSE LET shorter == StringsUpTo(chars, n - 1)
         IN  shorter \cup {Append(t, c) : t \in shorter, c \in chars}

(* does pat occur in s at position k (1-based)? *)
MatchAt(s, pat, k) ==
    /\ k + Len(pat) - 1 <= Len(s)
    /\ SubSeq(s, k, k + Len(pat) - 1) = pat

(* s.includes(pat) *)
Includes(s, pat) == \E k \in 1..(Len(s) + 1) : MatchAt(s, pat, k)

(* s.replace(/pat/g, rep) for a literal, non-empty pat and a rep without $ *)
RECURSIVE ReplaceEach(_, _, _)
ReplaceEach(s, pat, rep) ==
    IF s = <<>> THEN <<>>
    ELSE IF MatchAt(s, pat, 1)
         THEN rep \o ReplaceEach(SubSeq(s, Len(pat) + 1, Len(s)), pat, rep)
         ELSE <<Head(s)>> \o ReplaceEach(Tail(s), pat, rep)

(* s.replace(/\r\n|\r/g, '\n') *)
RECURSIVE NormalizeNewlines(_)
NormalizeNewlines(s) ==
    IF s = <<>> THEN <<>>
    ELSE IF MatchAt(s, CRLF, 1)
         THEN <<"LF">> \o NormalizeNewlines(SubSeq(s, 3, Len(s)))
         ELSE IF Head(s) = "CR"
              THEN <<"LF">> \o NormalizeNewlines(Tail(s))
              ELSE <<Head(s)>> \o NormalizeNewlines(Tail(s))

(* s.split('\n'): the sequence of the lines of s; never empty *)
RECURSIVE Split(_)
Split(s) ==
    IF \A k \in 1..Len(s) : s[k] # "LF" THEN <<s>>
    ELSE LET k == CHOOSE j \in 1..Len(s) :
                     s[j] = "LF" /\ \A h \in 1..(j - 1) : s[h] # "LF"
         IN  <<SubSeq(s, 1, k - 1)>> \o Split(SubSeq(s, k + 1, Len(s)))

(* lines.join(sep) *)
RECURSIVE Join(_, _)
Join(lines, sep) ==
    IF Len(lines) = 0 THEN <<>>
    ELSE IF Len(lines) = 1 THEN lines[1]
         ELSE lines[1] \o sep \o Join(Tail(lines), sep)

Clamp(n, len) == IF n < 0 THEN 0 ELSE IF n > len THEN len ELSE n

(* s.substring(a, b): both ends clamped to 0..length, swapped if a > b *)
Substring(s, a, b) ==
    LET x == Clamp(a, Len(s))
        y == Clamp(b, Len(s))
    IN  IF x <= y THEN SubSeq(s, x + 1, y) ELSE SubSeq(s, y + 1, x)

(* s.substring(a) *)
SubstringFrom(s, a) == SubSeq(s, Clamp(a, Len(s)) + 1, Len(s))

(* ------------------------------------------------ edit tools, one by one *)
(* One call of an edit tool on a file nobody else touches, with reads and
   writes that succeed: execute as a function of the file text and the
   arguments.  written and scheduled hold zero or one text: the text given
   to writeFileSimple and the text given to FileCache.updateCache by the
   timer callback (which also opens the editor tab). *)
FileChars == {"a", "CR", "LF"}

ContentChars == {"x", "CR", "LF"}

MaxOffset == 3

Files == StringsUpTo(FileChars, MaxFileLen)

EditContents == StringsUpTo(ContentChars, MaxContentLen)

(* return responseHandler.failure(message) before any write *)
EditFailed(message) ==
    [result |-> Failure(<<message>>), written |-> <<>>, scheduled |-> <<>>,
     lines |-> <<>>]

(* writeFileSimple awaited, response built, timers set, response returned;
   lines is the local array of that name when the text was joined *)
EditWritten(newContent, data, lines) ==
    [result |-> Success(data), written |-> <<newContent>>,
     scheduled |-> <<newContent>>, lines |-> lines]

(* lines 380 and 570: the line ending the file is taken to use *)
OriginalLineEnding(currentContent) ==
    IF Includes(currentContent, CRLF) THEN CRLF ELSE <<"LF">>

(* variant: the upper bound of the range is not tested *)
ValidLineNumbers_NoUpperBound(lines, startLine, endLine) ==
    ~(startLine < 1 \/ startLine > endLine)

(* variant: an empty last line is not counted as a line *)
ValidLineNumbers_EmptyLastLineNotCounted(lines, startLine, endLine) ==
    LET count == IF lines[Len(lines)] = <<>> THEN Len(lines) - 1
                 ELSE Len(lines)
    IN  ~(startLine < 1 \/ endLine > count \/ startLine > endLine)

(* line 387 *)
ValidLineNumbers(lines, startLine, endLine) ==
    ~(startLine < 1 \/ endLine > Len(lines) \/ startLine > endLine)

(* variant: the replacement is inserted at offset *)
SpliceSingleLine_Inserts(lineToModify, offset, adaptedContent) ==
    Substring(lineToModify, 0, offset) \o adaptedContent
        \o SubstringFrom(lineToModify, offset)

(* lines 401-404 *)
SpliceSingleLine(lineToModify, offset, adaptedContent) ==
    Substring(lineToModify, 0, offset) \o adaptedContent
        \o SubstringFrom(lineToModify, offset + Len(adaptedContent))

(* variant: the new lines are inserted and no line is removed *)
SpliceLines_RemovesNothing(lines, startLine, endLine, newLines) ==
    SubSeq(lines, 1, startLine - 1) \o newLines
        \o SubSeq(lines, startLine, Len(lines))

(* lines 405-409: lines.splice(startIndex, endIndex - startIndex + 1,
   ...newLines) *)
SpliceLines(lines, startLine, endLine, newLines) ==
    SubSeq(lines, 1, startLine - 1) \o newLines
        \o SubSeq(lines, endLine + 1, Len(lines))

(* lines 377-443 of ReplaceFileContentAtPositionTool.execute *)
ReplaceAtPosition(currentContent, args) ==
    LET originalLineEnding == OriginalLineEnding(currentContent)
        normalizedContent == ReplaceEach(currentContent, CRLF, <<"LF">>)
        lines == Split(normalizedContent)
    IN  IF ~ValidLineNumbers(lines, args.startLine, args.endLine)
        THEN EditFailed("Invalid line numbers")
        ELSE LET adaptedContent == ReplaceEach(args.content, CRLF, <<"LF">>)
                 newLines ==
                     IF args.startLine = args.endLine
                     THEN [lines EXCEPT ![args.startLine] =
                             SpliceSingleLine(@, args.offset, adaptedContent)]
                     ELSE SpliceLines(lines, args.startLine, args.endLine,
                                      Split(adaptedContent))
             IN  EditWritten(Join(newLines, originalLineEnding), <<"ok">>,
                             newLines)

(* the call is recorded and the file becomes what was written *)
ApplyEdit(e, tool, args, out) ==
    [file |-> IF out.written # <<>> THEN out.written[1] ELSE e.file,
     exists |-> e.exists \/ out.written # <<>>,
     calls |-> Append(e.calls,
                  [tool |-> tool, args |-> args, before |-> e.file,
                   existed |-> e.exists,
                   result |-> out.result, written |-> out.written,
                   scheduled |-> out.scheduled, lines |-> out.lines])]

EditInit ==
    /\ inv = [i \in Invs |-> NoInvocation]
    /\ store = [p \in Paths |-> <<OriginalText>>]
    /\ cache = [p \in Paths |-> NoEntry]
    /\ timers = <<>>
    /\ fh = [i \in Invs |-> NoFile]
    /\ reg = NoRegistry

RangeInit ==
    /\ EditInit
    /\ ed \in [file : Files, exists : {TRUE}, calls : {<<>>}]

(* replace_file_content_at_position is called on the file *)
CallReplaceAtPosition ==
    /\ ed.calls = <<>>
    /\ \E startLine \in 0..MaxLine, endLine \in 0..MaxLine,
          content \in EditContents, offset \in 0..MaxOffset :
          LET args == [startLine |-> startLine, endLine |-> endLine,
                       content |-> content, offset |-> offset]
          IN  ed' = ApplyEdit(ed, "replace_file_content_at_position", args,
                              ReplaceAtPosition(ed.file, args))
    /\ UNCHANGED <<inv, fvars, reg>>

(* the call has replaced its range, and the same call is made once more *)
RepeatReplaceAtPosition ==
    /\ Len(ed.calls) = 1
    /\ ed.calls[1].tool = "replace_file_content_at_position"
    /\ ed.calls[1].written # <<>>
    /\ ed' = ApplyEdit(ed, "replace_file_content_at_position", ed.calls[1].args,
                       ReplaceAtPosition(ed.file, ed.calls[1].args))
    /\ UNCHANGED <<inv, fvars, reg>>

RangeNext == CallReplaceAtPosition \/ RepeatReplaceAtPosition

RangeSpec == RangeInit /\ [][RangeNext]_vars

(* AbsFileTools.adaptLineEndings(existingContent, content): the line endings
   of content rewritten to the style of the existing text (CRLF if it has a
   CRLF, else LF) *)
AdaptLineEndings(existingContent, content) ==
    ReplaceEach(ReplaceEach(content, CRLF, <<"LF">>), <<"LF">>,
                OriginalLineEnding(existingContent))

(* AbsFileTools.fileExists(fileUri) *)
FileExists(e) == e.exists

(* variant: the text is written whether the file exists or not *)
AppendFileContent_NoExistsCheck(e, args) ==
    LET adaptedContent == AdaptLineEndings(e.file, args.content)
        newContent == e.file \o adaptedContent
    IN  EditWritten(newContent, <<"size", Len(newContent)>>, <<>>)

(* lines 484-525 of AppendFileContentTool.execute *)
AppendFileContent(e, args) ==
    IF ~FileExists(e)
    THEN EditFailed("File does not exist")
    ELSE LET existingContent == e.file
             adaptedContent == AdaptLineEndings(existingContent, args.content)
             newContent == existingContent \o adaptedContent
         IN  EditWritten(newContent, <<"size", Len(newContent)>>, <<>>)

(* lines 383-384: lines.length for a text *)
LinesLength(currentContent) ==
    Len(Split(ReplaceEach(currentContent, CRLF, <<"LF">>)))

(* the file holds a text, or there is no file *)
AppendInit ==
    /\ EditInit
    /\ \/ ed \in [file : Files, exists : {TRUE}, calls : {<<>>}]
       \/ ed = [file |-> <<>>, exists |-> FALSE, calls |-> <<>>]

(* append_file_content is called on the file *)
CallAppendFileContent ==
    /\ ed.calls = <<>>
    /\ \E content \in EditContents :
          LET args == [content |-> content]
          IN  ed' = ApplyEdit(ed, "append_file_content", args,
                              AppendFileContent(ed, args))
    /\ UNCHANGED <<inv, fvars, reg>>

(* replace_file_content_at_position is called with empty content on the
   lines the append added to: from the last line of the text before the
   append to the last line of the text after it *)
ReplaceAppendedLines ==
    /\ Len(ed.calls) = 1
    /\ ed.calls[1].tool = "append_file_content"
    /\ ed.calls[1].written # <<>>
    /\ \E offset \in 0..MaxOffset :
          LET args == [startLine |-> LinesLength(ed.calls[1].before),
                       endLine |-> LinesLength(ed.file),
                       content |-> <<>>, offset |-> offset]
          IN  ed' = ApplyEdit(ed, "replace_file_content_at_position", args,
                              ReplaceAtPosition(ed.file, args))
    /\ UNCHANGED <<inv, fvars, reg>>

AppendNext == CallAppendFileContent \/ ReplaceAppendedLines

AppendSpec == AppendInit /\ [][AppendNext]_vars

(* --------------------------------------------------- replace_specific_text *)
MaxTextLen == 2

MaxSpecificLen == 3

SpecificFileChars == {"a", "CR", "LF"}

OldTextChars == {"a", ".", "CR", "LF"}

NewTextChars == {"b", "$", "&", "CR", "LF"}

(* the characters of the class [.*+?^${}()|[\]\\] of line 638 *)
RegExpSpecials ==
    {".", "*", "+", "?", "^", "$", "{", "}", "(", ")", "|", "[", "]", "\\"}

(* variant: nothing is escaped *)
RECURSIVE EscapeRegExp_Nothing(_)
EscapeRegExp_Nothing(string) ==
    IF string = <<>> THEN <<>>
    ELSE <<Head(string)>> \o EscapeRegExp_Nothing(Tail(string))

(* lines 637-639: string.replace(/[.*+?^${}()|[\]\\]/g, '\\$&') *)
RECURSIVE EscapeRegExp(_)
EscapeRegExp(string) ==
    IF string = <<>> THEN <<>>
    ELSE (IF Head(string) \in RegExpSpecials
          THEN <<"\\", Head(string)>> ELSE <<Head(string)>>)
         \o EscapeRegExp(Tail(string))

(* new RegExp(source, 'gs'): the atoms of the pattern, for a source of
   escaped characters, dots and plain characters; with the s flag a dot
   matches every character, line feeds included *)
RECURSIVE CompileRegExp(_)
CompileRegExp(source) ==
    IF source = <<>> THEN <<>>
    ELSE IF Head(source) = "\\" /\ Len(source) >= 2
         THEN <<[any |-> FALSE, char |-> source[2]]>>
                  \o CompileRegExp(SubSeq(source, 3, Len(source)))
         ELSE IF Head(source) = "."
              THEN <<[any |-> TRUE, char |-> "."]>>
                       \o CompileRegExp(Tail(source))
              ELSE <<[any |-> FALSE, char |-> Head(source)]>>
                       \o CompileRegExp(Tail(source))

(* does the pattern match s at position k (1-based)? *)
RegExpMatchAt(s, regex, k) ==
    /\ k + Len(regex) - 1 <= Len(s)
    /\ \A j \in 1..Len(regex) : regex[j].any \/ s[k + j - 1] = regex[j].char

(* s.match(regex) for a global regex: the positions of the matches found
   from position k on, left to right, each search starting where the last
   match ended (one character further after an empty match) *)
RECURSIVE RegExpMatches(_, _, _)
RegExpMatches(s, regex, k) ==
    IF k > Len(s) + 1 THEN <<>>
    ELSE IF RegExpMatchAt(s, regex, k)
         THEN <<k>> \o RegExpMatches(s, regex,
                           IF regex = <<>> THEN k + 1 ELSE k + Len(regex))
         ELSE RegExpMatches(s, regex, k + 1)

(* regex.test(s), lastIndex being 0 *)
RegExpTest(s, regex) == RegExpMatches(s, regex, 1) # <<>>

(* the replacement text of String.prototype.replace for one match: $$ is a
   dollar sign and $& is the matched text; a pattern without groups gives
   no other meaning to the characters of NewTextChars *)
RECURSIVE GetSubstitution(_, _)
GetSubstitution(matched, replacement) ==
    IF replacement = <<>> THEN <<>>
    ELSE IF MatchAt(replacement, <<"$", "$">>, 1)
         THEN <<"$">> \o GetSubstitution(matched,
                             SubSeq(replacement, 3, Len(replacement)))
         ELSE IF MatchAt(replacement, <<"$", "&">>, 1)
              THEN matched \o GetSubstitution(matched,
                                 SubSeq(replacement, 3, Len(replacement)))
              ELSE <<Head(replacement)>>
                       \o GetSubstitution(matched, Tail(replacement))

(* s.replace(regex, replacement) for a global regex, from position k on *)
RECURSIVE RegExpReplace(_, _, _, _)
RegExpReplace(s, regex, replacement, k) ==
    IF k > Len(s) + 1 THEN <<>>
    ELSE LET here == IF k <= Len(s) THEN <<s[k]>> ELSE <<>>
         IN  IF RegExpMatchAt(s, regex, k)
             THEN GetSubstitution(SubSeq(s, k, k + Len(regex) - 1),
                                  replacement)
                  \o (IF regex = <<>>
                      THEN here \o RegExpReplace(s, regex, replacement, k + 1)
                      ELSE RegExpReplace(s, regex, replacement,
                                         k + Len(regex)))
             ELSE here \o RegExpReplace(s, regex, replacement, k + 1)

(* variant: the line endings are left as line feeds *)
RestoreLineEndings_Skipped(newContent, originalLineEnding) == newContent

(* line 596: newContent.replace(/\n/g, originalLineEnding) *)
RestoreLineEndings(newContent, originalLineEnding) ==
    ReplaceEach(newContent, <<"LF">>, originalLineEnding)

(* lines 566-627 of ReplaceSpecificTextTool.execute *)
ReplaceSpecificText(fileContent, args) ==
    LET originalLineEnding == OriginalLineEnding(fileContent)
        currentContent == NormalizeNewlines(fileContent)
        normalizedOldText == NormalizeNewlines(args.oldText)
        normalizedNewText == NormalizeNewlines(args.newText)
        escapedOldText == EscapeRegExp(normalizedOldText)
        regex == CompileRegExp(escapedOldText)
    IN  IF ~RegExpTest(currentContent, regex)
        THEN EditFailed("no occurrences found")
        ELSE LET newContent ==
                     RegExpReplace(currentContent, regex, normalizedNewText, 1)
                 replacementCount == Len(RegExpMatches(currentContent, regex, 1))
                 finalContent ==
                     RestoreLineEndings(newContent, originalLineEnding)
             IN  EditWritten(finalContent,
                             <<"replacedCount", replacementCount>>, <<>>)

SpecificFiles == StringsUpTo(SpecificFileChars, MaxSpecificLen)

OldTexts == StringsUpTo(OldTextChars, MaxTextLen)

NewTexts == StringsUpTo(NewTextChars, MaxTextLen)

SpecificInit ==
    /\ EditInit
    /\ ed \in [file : SpecificFiles, exists : {TRUE}, calls : {<<>>}]

(* replace_specific_text is called on the file *)
CallReplaceSpecificText ==
    /\ ed.calls = <<>>
    /\ \E oldText \in OldTexts, newText \in NewTexts :
          LET args == [oldText |-> oldText, newText |-> newText]
          IN  ed' = ApplyEdit(ed, "replace_specific_text", args,
                              ReplaceSpecificText(ed.file, args))
    /\ UNCHANGED <<inv, fvars, reg>>

SpecificNext == CallReplaceSpecificText

SpecificSpec == SpecificInit /\ [][SpecificNext]_vars

(* --------------------------------------------------- get_file_text_by_path *)
MaxReadLen == 3

(* Defaults.Limits.maxFileReadCharacters *)
MaxFileReadCharacters == 100000

ReadChars == {"a", "b"}

(* a text of n characters *)
LongText(n) == [k \in 1..n |-> IF k % 2 = 1 THEN "a" ELSE "b"]

(* the short texts, a text of just the default limit and one of a
   character more *)
ReadFiles ==
    StringsUpTo(ReadChars, MaxReadLen)
        \cup {LongText(MaxFileReadCharacters),
              LongText(MaxFileReadCharacters + 1)}

(* A value of args.maxCharacters: its typeof, and for a number whether it
   is finite, with its value counted in halves (3 is 6 halves, 2.5 is 5
   halves), so that numbers that are not integers are among the inputs. *)
JsValue(type, is, halves) == [type |-> type, is |-> is, halves |-> halves]

FiniteNumber(halves) == JsValue("number", "finite", halves)

MaxCharactersValues ==
    {JsValue("undefined", "", 0), JsValue("string", "", 0),
     JsValue("number", "NaN", 0), JsValue("number", "Infinity", 0),
     JsValue("number", "-Infinity", 0)}
        \cup {FiniteNumber(h) : h \in (-2)..(2 * MaxReadLen + 2)}

(* args.encoding; "undefined" stands for a missing argument *)
Encodings == {"undefined", "", "utf-8", "UTF-8", "utf8", "latin1"}

(* encoding.toLowerCase(), on Encodings *)
ToLowerCase(encoding) == IF encoding = "UTF-8" THEN "utf-8" ELSE encoding

(* lines 64-68: the test of the encoding *)
UnsupportedEncoding(encoding) ==
    /\ encoding \notin {"undefined", ""}
    /\ ToLowerCase(encoding) # "utf-8"
    /\ ToLowerCase(encoding) # "utf8"

(* variant: every finite number is taken as the limit *)
EffectiveMaxCharacters_AnyFinite(maxCharacters) ==
    IF maxCharacters.type = "number" /\ maxCharacters.is = "finite"
    THEN maxCharacters
    ELSE FiniteNumber(2 * MaxFileReadCharacters)

(* lines 75-78 *)
EffectiveMaxCharacters(maxCharacters) ==
    IF /\ maxCharacters.type = "number"
       /\ maxCharacters.is = "finite"
       /\ maxCharacters.halves > 0
    THEN maxCharacters
    ELSE FiniteNumber(2 * MaxFileReadCharacters)

(* text.slice(0, end) for a finite end: end is truncated towards zero to an
   integer, counted from the end of the text when negative, and clamped to
   0..text.length *)
SliceTo(text, end) ==
    LET integer == IF end.halves >= 0 THEN end.halves \div 2
                   ELSE -((-end.halves) \div 2)
        relative == IF integer < 0 THEN Len(text) + integer ELSE integer
        to == IF relative < 0 THEN 0
              ELSE IF relative > Len(text) THEN Len(text) ELSE relative
    IN  SubSeq(text, 1, to)

(* lines 61-114 of GetFileTextByPathTool.execute, fullText being what
   getFileContent returned *)
GetFileTextByPath(fullText, args) ==
    IF UnsupportedEncoding(args.encoding)
    THEN EditFailed("Only 'utf-8' encoding is currently supported for get_file_text_by_path")
    ELSE LET originalLength == Len(fullText)
             effectiveMaxCharacters == EffectiveMaxCharacters(args.maxCharacters)
             truncated == /\ effectiveMaxCharacters.halves # 0
                          /\ 2 * Len(fullText) > effectiveMaxCharacters.halves
             text == IF truncated THEN SliceTo(fullText, effectiveMaxCharacters)
                     ELSE fullText
         IN  [result |-> [isError |-> FALSE, text |-> text,
                          structuredContent |->
                              [encoding |-> "utf-8", content |-> text,
                               truncated |-> truncated, length |-> Len(text),
                               totalLength |-> originalLength,
                               maxCharacters |-> effectiveMaxCharacters]],
              written |-> <<>>, scheduled |-> <<>>, lines |-> <<>>]

ReadInit ==
    /\ EditInit
    /\ ed \in [file : ReadFiles, exists : {TRUE}, calls : {<<>>}]

(* get_file_text_by_path is called on the file *)
CallGetFileTextByPath ==
    /\ ed.calls = <<>>
    /\ \E maxCharacters \in MaxCharactersValues, encoding \in Encodings :
          LET args == [maxCharacters |-> maxCharacters, encoding |-> encoding]
          IN  ed' = ApplyEdit(ed, "get_file_text_by_path", args,
                              GetFileTextByPath(ed.file, args))
    /\ UNCHANGED <<inv, fvars, reg>>

ReadNext == CallGetFileTextByPath

ReadSpec == ReadInit /\ [][ReadNext]_vars

(* --------------------------------------------------------------- helpers *)
Events(r, ev) == {n \in 1..Len(r.trace) : r.trace[n][1] = ev}

HandlerRan(r) == Events(r, "handle") # {}

AfterRan(r) == Events(r, "after") # {}

BeforeRanFor(r, k) == \E n \in 1..Len(r.trace) : r.trace[n] = <<"before", k>>

IsPrefix(s, t) == Len(s) <= Len(t) /\ \A n \in 1..Len(s) : s[n] = t[n]

FullTrace ==
    <<<<"before", 1>>, <<"before", 2>>, <<"before", 3>>, <<"handle", 0>>,
      <<"after", 1>>, <<"after", 2>>, <<"after", 3>>, <<"reply", 0>>>>

(* ------------------------------------------------------------ properties *)

(* C1: when the before-phase of handleToolExecution returns null, the tool
   handler is never invoked, no after-hook runs, and the caller gets exactly
   the failure envelope 'Request cancelled by interceptor'. *)
C1_CancelledNeverExecutes ==
    \A i \in Invs :
        inv[i].processed = "null" =>
            /\ ~HandlerRan(inv[i])
            /\ inv[i].handlerArgs = <<>>
            /\ ~AfterRan(inv[i])
            /\ inv[i].pc = "done"
            /\ inv[i].replies =
                 <<[via |-> "sendJsonResponse", status |-> 200,
                    body |-> [isError |-> TRUE,
                              text |-> <<"Request cancelled by interceptor">>]]>>

C1_Witness ==
    \E i \in Invs :
        /\ inv[i].entry = "http"
        /\ inv[i].processed = "null"
        /\ inv[i].cancelledBy = 1
        /\ Len(inv[i].replies) = 1

(* C2: when the context returned by the before-phase carries a cached
   response, that response is sent unchanged with status 200, the handler is
   never invoked and no after-hook runs. *)
C2_CacheHitSentUnchanged ==
    \A i \in Invs :
        (inv[i].processed = "ctx" /\ inv[i].ctx[1].cachedResponse # <<>>) =>
            /\ ~HandlerRan(inv[i])
            /\ inv[i].handlerArgs = <<>>
            /\ ~AfterRan(inv[i])
            /\ inv[i].pc = "done"
            /\ inv[i].replies =
                 <<[via |-> "sendJsonResponse", status |-> 200,
                    body |-> inv[i].ctx[1].cachedResponse[1]]>>

C2_Witness ==
    \E i \in Invs :
        /\ inv[i].processed = "ctx"
        /\ inv[i].ctx[1].cachedResponse = <<CachedResponse>>
        /\ inv[i].cacheHitBy = 3
        /\ Len(inv[i].replies) = 1

(* C3 (as stated): every invocation whose handler was executed has run the
   after-hooks of all interceptors by the time its response is returned, for
   both entry points and every outcome of the handler. *)
C3_ExecutedPassesAfterPhase ==
    \A i \in Invs :
        (inv[i].pc = "done" /\ HandlerRan(inv[i])) =>
            \A k \in 1..NumInterceptors :
                \E n \in 1..Len(inv[i].trace) :
                    /\ inv[i].trace[n] = <<"after", k>>
                    /\ \A m \in Events(inv[i], "reply") : n < m

(* C4 (as stated): a handler starts only after the before-phase has run to
   completion on the invocation's context and returned neither a
   cancellation nor a cached response, for both entry points. *)
C4_HandlerOnlyAfterBeforePhase ==
    \A i \in Invs :
        HandlerRan(inv[i]) =>
            /\ inv[i].processed = "ctx"
            /\ inv[i].cancelledBy = 0
            /\ inv[i].ctx[1].cachedResponse = <<>>
            /\ \E n \in Events(inv[i], "before") :
                   \A m \in Events(inv[i], "handle") : n < m

(* C5 (as stated): the handler is invoked with the params of the context
   returned by the before-phase. *)
C5_HandlerSeesTransformedParams ==
    \A i \in Invs :
        (inv[i].entry = "http" /\ HandlerRan(inv[i])) =>
            inv[i].handlerArgs = <<inv[i].ctx[1].params>>

(* C6: with interceptors A, B, C and no cancellation, cache hit or error,
   the before-hooks are called in the order A, B, C, each with the context
   its predecessor returned, then the handler, then the after-hooks in the
   order A, B, C, then the reply. *)
C6_HookOrder ==
    \A i \in Invs :
        (/\ inv[i].entry = "http"
         /\ inv[i].toolName \in RegisteredTools
         /\ inv[i].cancelledBy = 0
         /\ inv[i].cacheHitBy = 0
         /\ inv[i].threw = "none") =>
            /\ IsPrefix(inv[i].trace, FullTrace)
            /\ inv[i].pc = "done" => inv[i].trace = FullTrace
            /\ inv[i].pc = "before" => inv[i].hookArg = inv[i].ctx
            /\ inv[i].pc = "exec" => Len(inv[i].trace) = 4
            /\ inv[i].pc = "after" => Len(inv[i].trace) = 4 + inv[i].idx

C6_Witness ==
    \E i \in Invs :
        /\ inv[i].entry = "http"
        /\ inv[i].pc = "done"
        /\ inv[i].trace = FullTrace
        /\ inv[i].ctx[1].params # inv[i].params
        /\ inv[i].replies[1].via = "sendResponse"

(* C7: a cancellation returned by B's before-hook prevents C's before-hook
   and the handler from ever running. *)
C7_CancelByBStopsChain ==
    \A i \in Invs :
        inv[i].cancelledBy = 2 =>
            /\ ~BeforeRanFor(inv[i], 3)
            /\ ~HandlerRan(inv[i])
            /\ inv[i].trace = <<<<"before", 1>>, <<"before", 2>>, <<"reply", 0>>>>

C7_Witness ==
    \E i \in Invs :
        /\ inv[i].cancelledBy = 2
        /\ BeforeRanFor(inv[i], 1)
        /\ BeforeRanFor(inv[i], 2)
        /\ inv[i].pc = "done"

(* C8: once a before-hook returns a context with a cached response, no
   before-hook of a later interceptor is called. *)
C8_CacheHitSkipsLaterHooks ==
    \A i \in Invs :
        inv[i].cacheHitBy # 0 =>
            \A k \in 1..NumInterceptors :
                k > inv[i].cacheHitBy => ~BeforeRanFor(inv[i], k)

C8_Witness ==
    \E i \in Invs :
        /\ inv[i].cacheHitBy = 1
        /\ inv[i].pc = "done"
        /\ inv[i].trace = <<<<"before", 1>>, <<"reply", 0>>>>

(* C9: a call naming an unregistered tool is answered, on both entry
   points, with the failure envelope 'Unknown tool: <name>' and not with a
   server-error reply; no interceptor sees a context and no handler runs. *)
C9_UnknownToolFailure ==
    \A i \in Invs :
        (inv[i].entry \in {"http", "direct"}
            /\ inv[i].toolName \notin RegisteredTools) =>
            /\ inv[i].pc = "done"
            /\ inv[i].trace = <<<<"reply", 0>>>>
            /\ inv[i].ctx = <<>>
            /\ inv[i].hookArg = <<>>
            /\ inv[i].handlerArgs = <<>>
            /\ Len(inv[i].replies) = 1
            /\ inv[i].replies[1].body =
                 [isError |-> TRUE, text |-> <<"Unknown tool: ", inv[i].toolName>>]
            /\ inv[i].replies[1].via =
                 (IF inv[i].entry = "http" THEN "sendJsonResponse" ELSE "return")
            /\ inv[i].replies[1].status # 500

C9_Witness ==
    \E i, j \in Invs :
        /\ inv[i].entry = "http"
        /\ inv[j].entry = "direct"
        /\ inv[i].toolName = "no_such_tool"
        /\ inv[j].toolName = "no_such_tool"
        /\ inv[i].replies # <<>>
        /\ inv[j].replies # <<>>

(* C10 (as stated): an error thrown by the tool handler is returned as a
   failure envelope and never as a server-error reply, on both entry
   points. *)
C10_HandlerErrorIsFailureEnvelope ==
    \A i \in Invs :
        inv[i].threw = "handler" =>
            /\ Len(inv[i].replies) = 1
            /\ inv[i].replies[1].body.isError
            /\ inv[i].replies[1].via # "handleServerError"
            /\ inv[i].replies[1].status # 500

(* C11: a throwing before- or after-hook aborts only its own invocation,
   whose caller gets exactly one reply carrying a failure envelope; an
   invocation that arrives afterwards still runs through all phases. *)
C11_HookErrorAbortsOnlyItsInvocation ==
    \A i \in Invs :
        /\ inv[i].threw \in {"before", "after"} =>
              /\ inv[i].pc = "done"
              /\ Len(inv[i].replies) = 1
              /\ inv[i].replies[1].body.isError
              /\ inv[i].trace[Len(inv[i].trace)] = <<"reply", 0>>
        /\ (/\ inv[i].afterAbort
            /\ inv[i].toolName \in RegisteredTools
            /\ inv[i].cancelledBy = 0
            /\ inv[i].cacheHitBy = 0
            /\ inv[i].threw = "none") =>
              /\ IsPrefix(inv[i].trace, FullTrace)
              /\ inv[i].pc # "idle"
              /\ inv[i].pc = "done" =>
                    /\ inv[i].trace = FullTrace
                    /\ inv[i].replies = <<SendResponse(inv[i].resp[1])>>

C11_Witness ==
    \E i, j \in Invs :
        /\ inv[i].threw = "before"
        /\ inv[j].afterAbort
        /\ inv[j].pc = "done"
        /\ inv[j].trace = FullTrace
        /\ inv[j].threw = "none"

(* C12: every invocation of handleToolExecution eventually reaches its
   terminal state, and then and only then exactly one response has been
   sent: never two, and none while it is still running. *)
C12_ExactlyOneResponse ==
    \A i \in Invs :
        /\ [](inv[i].entry = "http" =>
                /\ Len(inv[i].replies) <= 1
                /\ (inv[i].pc = "done") <=> (Len(inv[i].replies) = 1))
        /\ <>[](inv[i].entry = "http" =>
                  (inv[i].pc = "done" /\ Len(inv[i].replies) = 1))

C12_Witness ==
    /\ \A i \in Invs :
          /\ inv[i].entry = "http"
          /\ inv[i].pc = "done"
          /\ Len(inv[i].replies) = 1
    /\ inv[1].replies[1].via # inv[2].replies[1].via

(* C13: tool listing and initialize/status requests call no interceptor
   hook and no tool handler; they answer from registry metadata alone. *)
C13_MetaRequestsBypassChain ==
    \A i \in Invs :
        inv[i].entry \in MetaEntries =>
            /\ inv[i].trace = <<<<"reply", 0>>>>
            /\ inv[i].ctx = <<>>
            /\ inv[i].hookArg = <<>>
            /\ inv[i].handlerArgs = <<>>
            /\ inv[i].pc = "done"
            /\ Len(inv[i].replies) = 1
            /\ inv[i].entry \in {"listTools", "toolsList"} =>
                  inv[i].replies[1].body = [tools |-> RegisteredTools]

C13_Witness ==
    \E i, j \in Invs :
        /\ inv[i].entry = "listTools"
        /\ inv[j].entry \in {"initialize", "status"}
        /\ inv[i].replies # <<>>
        /\ inv[j].replies # <<>>

(* ------------------------------------------------ file tools: the claims *)
Mutating(i) == fh[i].tool \in MutatingTools

DeferredRan(i) == fh[i].upd \in {"ok", "failed"} \/ fh[i].opened

(* C14: for each of the five mutating tools, in the step that builds the
   success response or schedules the deferred steps the store already
   holds the text handed to writeFileSimple, and no deferred step has run
   for a call whose write has not completed. *)
C14_WriteCompletesFirst ==
    /\ [][\A i \in Invs :
            (/\ fh'[i].tool \in MutatingTools
             /\ \/ /\ fh[i].result = <<>>
                   /\ fh'[i].result # <<>>
                   /\ ~fh'[i].result[1].isError
                \/ fh[i].upd = "none" /\ fh'[i].upd # "none")
            => /\ fh'[i].wrote
               /\ store'[fh'[i].path] = fh'[i].newContent]_vars
    /\ [](\A i \in Invs : Mutating(i) /\ DeferredRan(i) => fh[i].wrote)

C14_Witness ==
    \E i, j \in Invs :
        /\ fh[i].tool = "replace_specific_text"
        /\ fh[j].tool = "create_new_file_with_text"
        /\ fh[i].wrote /\ fh[i].upd = "ok" /\ fh[i].opened
        /\ fh[j].wrote /\ fh[j].upd = "ok" /\ fh[j].opened

(* C15 (as stated): the cache update and the open-in-editor step of a
   mutating tool call run only once the response of that call has been
   sent. *)
C15_DeferredAfterResponseSent ==
    \A i \in Invs : Mutating(i) /\ DeferredRan(i) => inv[i].pc = "done"

(* C16: a step in which the deferred cache update of a call fails leaves no
   cache entry for the path, and a read called while the entry is still
   removed reads the store. *)
C16_FailedUpdateInvalidates ==
    [][\A i \in Invs :
          /\ (fh[i].upd = "scheduled" /\ fh'[i].upd = "failed")
                => cache'[fh[i].path].entry = <<>>
          /\ (/\ fh[i].pc = "idle"
              /\ fh'[i].tool = "get_file_text_by_path"
              /\ \E j \in Invs : fh[j].upd = "failed" /\ fh[j].path = fh'[i].path
              /\ cache[fh'[i].path].entry = <<>>)
                => fh'[i].pc = "reading"]_vars

C16_Witness ==
    \E i, j \in Invs :
        /\ fh[i].upd = "failed"
        /\ fh[j].tool = "get_file_text_by_path"
        /\ fh[j].afterInval
        /\ fh[j].readFrom = "store"
        /\ fh[j].cur = store[fh[j].path]
        /\ fh[j].cur # <<OriginalText>>

(* no call is running and no cache update is waiting in the timer queue *)
Quiescent ==
    /\ \A i \in Invs : fh[i].pc \in {"idle", "returned"}
    /\ \A k \in 1..Len(timers) : timers[k].kind # "updateCache"

(* C17 (as stated): once all calls have returned and every deferred cache
   update has run, the cache entry of a path is absent or equal to the text
   of the store. *)
C17_CacheConvergesToStore ==
    Quiescent => \A p \in Paths : cache[p].entry \in {<<>>, store[p]}

(* C18: a read called after invalidate(path), with no entry stored since,
   does not return the cached text: it reads the store and returns a
   content the store held during the read. *)
C18_ReadAfterInvalidateReadsStore ==
    [][\A i \in Invs :
          (/\ fh'[i].tool = "get_file_text_by_path"
           /\ fh'[i].afterInval
           /\ fh[i].pc # "returned"
           /\ fh'[i].pc = "returned"
           /\ ~fh'[i].result[1].isError)
          => /\ fh'[i].readFrom = "store"
             /\ <<fh'[i].result[1].text>> \in {fh[i].seen, store[fh[i].path]}]_vars

C18_Witness ==
    \E i \in Invs :
        /\ fh[i].tool = "get_file_text_by_path"
        /\ fh[i].afterInval
        /\ fh[i].pc = "returned"
        /\ ~fh[i].result[1].isError
        /\ fh[i].result[1].text # OriginalText

(* C19 (as stated): a step in which the awaited write of a mutating tool
   fails leaves no cache entry for the path. *)
C19_FailedWriteInvalidates ==
    [][\A i \in Invs :
          (/\ fh[i].pc = "writing"
           /\ fh'[i].pc = "returned"
           /\ ~fh'[i].wrote)
          => cache'[fh[i].path].entry = <<>>]_vars

(* C20: a mutating tool call whose write succeeded returns the success
   envelope, which is the response given to the after-phase and sent,
   whether its deferred cache update succeeds, fails or has not run; no
   error reaches handleToolExecution. *)
C20_UpdateFailureNotSurfaced ==
    \A i \in Invs :
        fh[i].wrote =>
            /\ fh[i].result = <<Success(<<"ok">>)>>
            /\ inv[i].threw = "none"
            /\ inv[i].resp = <<ResponseContext(Success(<<"ok">>))>>
            /\ inv[i].pc = "done" =>
                  inv[i].replies =
                      <<SendResponse(ResponseContext(Success(<<"ok">>)))>>

C20_Witness ==
    \E i, j \in Invs :
        /\ fh[i].tool = "append_file_content"
        /\ fh[j].tool = "rewrite_file_content"
        /\ fh[i].wrote /\ fh[i].upd = "failed" /\ inv[i].pc = "done"
        /\ fh[j].wrote /\ fh[j].upd = "ok" /\ inv[j].pc = "done"

(* ---------------------------------------------------- registry: the claim *)
(* C21: a lookup returns the definition first registered under the name; a
   registration under a name already present reports DuplicateNameError and
   leaves the registry as it was; a lookup of a name never registered
   reports not-found, and no lookup has any other outcome. *)
C21_RegistryContract ==
    /\ [](\A n \in ToolDefNames : LookupTool(reg.tools, n) = reg.first[n])
    /\ [](reg.last.op = "lookup" =>
             /\ reg.last.outcome \in {"found", "notFound"}
             /\ reg.last.def = reg.first[reg.last.name]
             /\ (reg.last.outcome = "notFound") <=> (reg.first[reg.last.name] = <<>>))
    /\ [][(reg'.last.op = "register" /\ reg'.last # reg.last) =>
             IF reg.first[reg'.last.name] # <<>>
             THEN /\ reg'.last.outcome = "DuplicateNameError"
                  /\ reg'.tools = reg.tools
             ELSE /\ reg'.last.outcome = "registered"
                  /\ LookupTool(reg'.tools, reg'.last.name) = reg'.last.def]_vars

C21_Witness ==
    /\ Len(reg.tools) = 2
    /\ reg.last.op = "register"
    /\ reg.last.outcome = "DuplicateNameError"
    /\ reg.last.def # reg.first[reg.last.name]
    /\ \E n \in ToolDefNames : reg.first[n] = <<>>

(* ------------------------------------------------- edit tools: the claims *)
(* the text of the file after call k *)
TextAfter(k) == IF k = Len(ed.calls) THEN ed.file ELSE ed.calls[k + 1].before

(* the positions of the line feeds of text, in order *)
LineFeeds(text) == {k \in 1..Len(text) : text[k] = "LF"}

(* the position of the n-th line feed of text; 0 for n = 0 *)
LineFeedAt(text, n) ==
    IF n = 0 THEN 0
    ELSE CHOOSE k \in LineFeeds(text) :
             Cardinality({j \in LineFeeds(text) : j <= k}) = n

LineCount(text) == Cardinality(LineFeeds(text)) + 1

(* line n of text, without its terminator (LF, or CR LF) *)
LineOf(text, n) ==
    LET from == LineFeedAt(text, n - 1) + 1
        last == n = LineCount(text)
        to == IF last THEN Len(text) ELSE LineFeedAt(text, n) - 1
        raw == SubSeq(text, from, to)
    IN  IF ~last /\ raw # <<>> /\ raw[Len(raw)] = "CR"
        THEN SubSeq(raw, 1, Len(raw) - 1) ELSE raw

(* the lines before line n, with their terminators *)
TextBeforeLine(text, n) == SubSeq(text, 1, LineFeedAt(text, n - 1))

(* the lines after line n, with their terminators *)
TextAfterLine(text, n) ==
    IF n >= LineCount(text) THEN <<>>
    ELSE SubSeq(text, LineFeedAt(text, n) + 1, Len(text))

StartsWith(text, prefix) ==
    Len(prefix) <= Len(text) /\ SubSeq(text, 1, Len(prefix)) = prefix

EndsWith(text, suffix) ==
    /\ Len(suffix) <= Len(text)
    /\ SubSeq(text, Len(text) - Len(suffix) + 1, Len(text)) = suffix

Min(a, b) == IF a < b THEN a ELSE b

Max(a, b) == IF a > b THEN a ELSE b

RangeCalls ==
    {k \in 1..Len(ed.calls) : ed.calls[k].tool = "replace_file_content_at_position"}

InvalidRange(text, args) ==
    \/ args.startLine < 1
    \/ args.endLine > LineCount(text)
    \/ args.startLine > args.endLine

(* C22: a call of replace_file_content_at_position with startLine < 1,
   endLine above the number of lines of the file, or startLine > endLine
   returns failure('Invalid line numbers'), writes nothing, schedules
   nothing and leaves the file as it was. *)
C22_InvalidRangeRejected ==
    \A k \in RangeCalls :
        InvalidRange(ed.calls[k].before, ed.calls[k].args) =>
            /\ ed.calls[k].result = Failure(<<"Invalid line numbers">>)
            /\ ed.calls[k].written = <<>>
            /\ ed.calls[k].scheduled = <<>>
            /\ TextAfter(k) = ed.calls[k].before

C22_Witness ==
    /\ Len(ed.calls) = 1
    /\ ed.calls[1].args.startLine = 2
    /\ ed.calls[1].args.endLine = 3
    /\ LineCount(ed.calls[1].before) = 2
    /\ ed.calls[1].result.isError

(* every line feed of text belongs to a CR LF, and there is one *)
CRLFJoined(text) ==
    /\ LineFeeds(text) # {}
    /\ \A k \in LineFeeds(text) : k > 1 /\ text[k - 1] = "CR"

(* every carriage return of text is followed by a line feed *)
NoLoneCR(text) ==
    \A k \in 1..Len(text) :
        text[k] = "CR" => (k < Len(text) /\ text[k + 1] = "LF")

(* C23 (as stated): the text written by a range replace on a CRLF-joined
   file has all its line breaks CR LF, and the text written on a file
   without any carriage return contains no CR LF, whatever the replacement
   text (taken here with line breaks LF or CR LF only). *)
C23_LineEndingStylePreserved ==
    \A k \in RangeCalls :
        (ed.calls[k].written # <<>> /\ NoLoneCR(ed.calls[k].args.content)) =>
            /\ CRLFJoined(ed.calls[k].before) =>
                  \A j \in LineFeeds(ed.calls[k].written[1]) :
                      j > 1 /\ ed.calls[k].written[1][j - 1] = "CR"
            /\ (\A j \in 1..Len(ed.calls[k].before) : ed.calls[k].before[j] # "CR")
                  => ~Includes(ed.calls[k].written[1], CRLF)

(* C24 (as stated): the text written by a range replace begins with the
   lines before startLine and ends with the lines after endLine, exactly as
   they were in the file, terminators included. *)
C24_OutsideRangeUntouched ==
    \A k \in RangeCalls :
        ed.calls[k].written # <<>> =>
            LET before == ed.calls[k].before
                head == TextBeforeLine(before, ed.calls[k].args.startLine)
                tail == TextAfterLine(before, ed.calls[k].args.endLine)
                new == ed.calls[k].written[1]
            IN  /\ StartsWith(new, head)
                /\ EndsWith(new, tail)
                /\ Len(head) + Len(tail) <= Len(new)

(* C25: after a range replace with startLine = endLine, the modified line
   is L[0..o) r L[o+len(r)..) for the line L, the offset o and the
   LF-normalized replacement r, all other lines are as they were, and for
   o <= len(L) and r without line break its length is max(len(L), o+len(r)). *)
C25_SingleLineOverwrite ==
    \A k \in RangeCalls :
        (ed.calls[k].written # <<>> /\ ed.calls[k].args.startLine = ed.calls[k].args.endLine)
        => LET before == ed.calls[k].before
               n == ed.calls[k].args.startLine
               o == ed.calls[k].args.offset
               L == LineOf(before, n)
               r == ReplaceEach(ed.calls[k].args.content, CRLF, <<"LF">>)
               new == ed.calls[k].lines
           IN  /\ Len(new) = LineCount(before)
               /\ new[n] = SubSeq(L, 1, Min(o, Len(L))) \o r
                              \o SubSeq(L, Min(o + Len(r), Len(L)) + 1, Len(L))
               /\ \A j \in 1..Len(new) : j # n => new[j] = LineOf(before, j)
               /\ (o <= Len(L) /\ LineFeeds(r) = {})
                     => Len(new[n]) = Max(Len(L), o + Len(r))

C25_Witness ==
    /\ Len(ed.calls) = 1
    /\ ed.calls[1].before = <<"a", "a", "a", "a">>
    /\ ed.calls[1].args.offset = 1
    /\ ed.calls[1].args.content = <<"x">>
    /\ ed.file = <<"a", "x", "a", "a">>

(* the call and its repetition were both made on a line within bounds *)
RepeatedOnLine ==
    /\ Len(ed.calls) = 2
    /\ ed.calls[1].args.startLine = ed.calls[1].args.endLine
    /\ ed.calls[1].written # <<>>
    /\ ed.calls[2].written # <<>>

(* C26 (as stated): the same range replace applied twice to a line within
   bounds leaves the text the first application left. *)
C26_RangeReplaceIdempotent ==
    RepeatedOnLine => ed.calls[2].written = ed.calls[1].written

(* C26 (amended): the same holds when the offset is at most the length of
   the line and the replacement text contains no CR and no LF. *)
C26_IdempotentWithinLine ==
    (/\ RepeatedOnLine
     /\ ed.calls[1].args.offset
            <= Len(LineOf(ed.calls[1].before, ed.calls[1].args.startLine))
     /\ \A j \in 1..Len(ed.calls[1].args.content) :
            ed.calls[1].args.content[j] \notin {"CR", "LF"})
    => ed.calls[2].written = ed.calls[1].written

C26_Witness ==
    /\ RepeatedOnLine
    /\ ed.calls[1].before = <<"a", "a", "LF", "a">>
    /\ ed.calls[1].args.offset = 1
    /\ ed.calls[1].args.content = <<"x">>
    /\ ed.file = <<"a", "x", "LF", "a">>

(* the text with every CR LF turned into LF *)
Normalized(text) == ReplaceEach(text, CRLF, <<"LF">>)

(* the states in which content was appended and the appended lines were
   then replaced by the empty text *)
RoundTripDone ==
    /\ Len(ed.calls) = 2
    /\ ed.calls[1].tool = "append_file_content"
    /\ ed.calls[2].tool = "replace_file_content_at_position"

(* C27: appending any content to any existing text and then replacing
   exactly the appended lines by the empty text gives the original text
   again, up to the normalization of line endings. *)
C27_AppendReplaceRoundTrip ==
    RoundTripDone =>
        Normalized(ed.file) = Normalized(ed.calls[1].before)

(* C27, amended: the same, for an appended content that is empty, and for
   an appended content that contains an LF when the existing text is empty
   or ends with LF. *)
C27_RoundTripOfWholeLines ==
    ( /\ RoundTripDone
      /\ \/ ed.calls[1].args.content = <<>>
         \/ /\ \/ ed.calls[1].before = <<>>
               \/ EndsWith(ed.calls[1].before, <<"LF">>)
            /\ Includes(ed.calls[1].args.content, <<"LF">>) )
    => /\ ed.calls[2].result = Success(<<"ok">>)
       /\ Normalized(ed.file) = Normalized(ed.calls[1].before)

C27_Witness ==
    /\ RoundTripDone
    /\ EndsWith(ed.calls[1].before, <<"a", "CR", "LF">>)
    /\ ed.calls[1].args.content = <<"x", "LF">>
    /\ ed.calls[1].written = <<ed.calls[1].before \o <<"x", "CR", "LF">>>>
    /\ ed.calls[2].args.startLine < ed.calls[2].args.endLine
    /\ ed.file = ed.calls[1].before

(* ------------------------------------------- replace_specific_text: claims *)
SpecificCalls ==
    {k \in 1..Len(ed.calls) : ed.calls[k].tool = "replace_specific_text"}

(* the number of occurrences of the non-empty text pat in s that do not
   overlap, counted from the left *)
RECURSIVE Occurrences(_, _)
Occurrences(s, pat) ==
    IF s = <<>> THEN 0
    ELSE IF MatchAt(s, pat, 1)
         THEN 1 + Occurrences(SubSeq(s, Len(pat) + 1, Len(s)), pat)
         ELSE Occurrences(Tail(s), pat)

(* the old text of call k occurs in the file, line endings apart *)
OldTextOccurs(k) ==
    Includes(NormalizeNewlines(ed.calls[k].before),
             NormalizeNewlines(ed.calls[k].args.oldText))

(* C28: when the old text (not empty) occurs in the file,
   replace_specific_text writes the text in which every occurrence of the
   old text, taken from the left without overlap, is the new text, both
   taken character by character, and reports the number of these
   occurrences as replacedCount; line endings are compared as line feeds. *)
C28_LiteralReplaceAll ==
    \A k \in SpecificCalls :
        LET c == ed.calls[k]
            text == NormalizeNewlines(c.before)
            old == NormalizeNewlines(c.args.oldText)
            new == NormalizeNewlines(c.args.newText)
        IN  (old # <<>> /\ OldTextOccurs(k)) =>
                /\ c.written # <<>>
                /\ NormalizeNewlines(c.written[1]) = ReplaceEach(text, old, new)
                /\ c.result = Success(<<"replacedCount", Occurrences(text, old)>>)

(* C29: when the old text does not occur in the file, replace_specific_text
   returns failure('no occurrences found'), writes nothing, schedules no
   cache update and no opening of the editor, and leaves the file as it
   was. *)
C29_AbsentTextRejected ==
    \A k \in SpecificCalls :
        ~OldTextOccurs(k) =>
            /\ ed.calls[k].result = Failure(<<"no occurrences found">>)
            /\ ed.calls[k].written = <<>>
            /\ ed.calls[k].scheduled = <<>>
            /\ TextAfter(k) = ed.calls[k].before

C29_Witness ==
    /\ Len(ed.calls) = 1
    /\ ed.calls[1].tool = "replace_specific_text"
    /\ ed.calls[1].before = <<"a", "LF", "a">>
    /\ ed.calls[1].args.oldText = <<".">>
    /\ ed.calls[1].result = Failure(<<"no occurrences found">>)
    /\ ed.file = <<"a", "LF", "a">>

(* every line feed of text belongs to a CR LF *)
EveryLFAfterCR(text) ==
    \A j \in LineFeeds(text) : j > 1 /\ text[j - 1] = "CR"

(* C30: replace_specific_text finds the old text whenever it occurs in the
   file with line endings taken as equal (CR LF, CR and LF), and the text
   it writes has CR LF as every line break when the file had a CR LF, and
   no CR LF when the file had none. *)
C30_MatchesAcrossLineEndings ==
    \A k \in SpecificCalls :
        LET c == ed.calls[k]
        IN  /\ OldTextOccurs(k) <=> c.written # <<>>
            /\ c.written # <<>> =>
                  IF Includes(c.before, CRLF)
                  THEN EveryLFAfterCR(c.written[1]) /\ NoLoneCR(c.written[1])
                  ELSE ~Includes(c.written[1], CRLF)

C30_Witness ==
    /\ Len(ed.calls) = 1
    /\ ed.calls[1].tool = "replace_specific_text"
    /\ ed.calls[1].before = <<"a", "CR", "LF">>
    /\ ed.calls[1].args.oldText = <<"a", "LF">>
    /\ ed.calls[1].args.newText = <<"b", "LF">>
    /\ ed.calls[1].written = <<<<"b", "CR", "LF">>>>
    /\ ed.file = <<"b", "CR", "LF">>

(* ------------------------------------------------------- append: the claim *)
AppendCalls ==
    {k \in 1..Len(ed.calls) : ed.calls[k].tool = "append_file_content"}

(* C31: append_file_content on a file that exists writes the existing text,
   character for character, followed by the content with its line endings
   in the style of the file: the content with every CR LF turned into LF
   when the file has no CR LF, and a text equal to the content up to CR LF
   against LF, with a CR before every LF, when the file has one.  On a file
   that does not exist it returns a failure envelope, writes nothing,
   schedules nothing and leaves the file missing. *)
C31_AppendKeepsExistingText ==
    \A k \in AppendCalls :
        LET c == ed.calls[k]
        IN  IF c.existed
            THEN LET new == IF c.written = <<>> THEN <<>> ELSE c.written[1]
                     added == SubSeq(new, Len(c.before) + 1, Len(new))
                 IN  /\ c.written # <<>>
                     /\ StartsWith(new, c.before)
                     /\ IF Includes(c.before, CRLF)
                        THEN /\ Normalized(added) = Normalized(c.args.content)
                             /\ EveryLFAfterCR(added)
                        ELSE added = Normalized(c.args.content)
                     /\ ~c.result.isError
                     /\ c.scheduled = c.written
            ELSE /\ c.result.isError
                 /\ c.written = <<>>
                 /\ ~ed.exists
                 /\ c.scheduled = <<>>
                 /\ TextAfter(k) = c.before

C31_Witness ==
    /\ Len(ed.calls) = 1
    /\ ed.calls[1].tool = "append_file_content"
    /\ ed.calls[1].before = <<"a", "CR", "LF", "a">>
    /\ ed.calls[1].args.content = <<"LF", "x">>
    /\ ed.file = <<"a", "CR", "LF", "a", "CR", "LF", "x">>

(* ------------------------------------------- range replace: further claims *)
(* C32: range replace accepts a range exactly when 1 <= startLine <= endLine
   <= the number of lines, which is the number of line feeds of the file
   text plus one whatever the replacement text; on an empty file, which has
   one empty line, startLine = endLine = 1 is the only range accepted. *)
C32_LineCountOfCurrentText ==
    \A k \in RangeCalls :
        LET c == ed.calls[k]
            accepted == c.written # <<>>
        IN  /\ accepted <=> ~InvalidRange(c.before, c.args)
            /\ accepted <=> ~c.result.isError
            /\ c.before = <<>> =>
                  (accepted <=> (c.args.startLine = 1 /\ c.args.endLine = 1))

C32_Witness ==
    /\ Len(ed.calls) = 1
    /\ ed.calls[1].tool = "replace_file_content_at_position"
    /\ ed.calls[1].before = <<>>
    /\ ed.calls[1].args.startLine = 1
    /\ ed.calls[1].args.endLine = 1
    /\ ed.calls[1].args.content = <<"x", "LF">>
    /\ ed.calls[1].args.offset = 0
    /\ ed.file = <<"x", "LF">>

(* segment n of text, the segments being separated by line feeds *)
Segment(text, n) ==
    SubSeq(text, LineFeedAt(text, n - 1) + 1,
           IF n = LineCount(text) THEN Len(text) ELSE LineFeedAt(text, n) - 1)

(* C33: an accepted range replace with startLine < endLine gives the lines
   of the file before startLine, then the lines of the replacement text,
   then the lines of the file after endLine (lines being the segments
   between line feeds once every CR LF is an LF), so their number is the
   number of lines of the file, less endLine - startLine + 1, plus the
   number of lines of the replacement; the text written is these lines
   joined by the line ending of the file, whatever the offset. *)
C33_MultiLineSplice ==
    \A k \in RangeCalls :
        LET c == ed.calls[k]
            from == c.args.startLine
            to == c.args.endLine
            old == Normalized(c.before)
            new == Normalized(c.args.content)
            removed == to - from + 1
            added == LineCount(new)
        IN  (c.written # <<>> /\ from < to) =>
                /\ Len(c.lines) = LineCount(old) - removed + added
                /\ \A n \in 1..(from - 1) : c.lines[n] = Segment(old, n)
                /\ \A n \in 1..added : c.lines[from - 1 + n] = Segment(new, n)
                /\ \A n \in (to + 1)..LineCount(old) :
                       c.lines[n - removed + added] = Segment(old, n)
                /\ c.written[1] =
                       Join(c.lines, IF Includes(c.before, CRLF) THEN CRLF
                                     ELSE <<"LF">>)

C33_Witness ==
    /\ Len(ed.calls) = 1
    /\ ed.calls[1].tool = "replace_file_content_at_position"
    /\ ed.calls[1].before = <<"a", "LF", "LF", "LF">>
    /\ ed.calls[1].args.startLine = 2
    /\ ed.calls[1].args.endLine = 3
    /\ ed.calls[1].args.content = <<"x", "LF">>
    /\ ed.calls[1].args.offset = 3
    /\ ed.calls[1].lines = <<<<"a">>, <<"x">>, <<>>, <<>>>>
    /\ ed.file = <<"a", "LF", "x", "LF", "LF">>

(* ----------------------------------------- get_file_text_by_path: the claim *)
(* the calls of get_file_text_by_path that returned the text *)
ReadCalls ==
    {k \in 1..Len(ed.calls) :
        /\ ed.calls[k].tool = "get_file_text_by_path"
        /\ ~ed.calls[k].result.isError}

(* the limit of a call, in halves: maxCharacters when it is a finite number
   above 0, else 100000 *)
LimitInHalves(maxCharacters) ==
    IF /\ maxCharacters.type = "number"
       /\ maxCharacters.is = "finite"
       /\ maxCharacters.halves > 0
    THEN maxCharacters.halves
    ELSE 2 * 100000

(* what C34 and its amended form share: the content is a prefix of the full
   text, truncated is true exactly when the full text is longer than the
   limit, length is the length of the content and is at most totalLength *)
ReadResultConsistent(k) ==
    LET c == ed.calls[k]
        sc == c.result.structuredContent
    IN  /\ StartsWith(c.before, sc.content)
        /\ sc.totalLength = Len(c.before)
        /\ sc.truncated <=> 2 * sc.totalLength > LimitInHalves(c.args.maxCharacters)
        /\ sc.length = Len(sc.content)
        /\ sc.length <= sc.totalLength
        /\ sc.maxCharacters.halves = LimitInHalves(c.args.maxCharacters)

(* C34: get_file_text_by_path returns the prefix of the full text whose
   length is the smaller of totalLength and the limit (maxCharacters when
   it is a finite number above 0, else 100000); truncated is true exactly
   when totalLength is above the limit; length is the length of the content
   returned and at most totalLength. *)
C34_PrefixOfEffectiveMax ==
    \A k \in ReadCalls :
        /\ ReadResultConsistent(k)
        /\ 2 * ed.calls[k].result.structuredContent.length
               = Min(2 * Len(ed.calls[k].before),
                     LimitInHalves(ed.calls[k].args.maxCharacters))

(* C34, amended: the same with the length of the prefix the smaller of
   totalLength and the limit rounded down to an integer. *)
C34_PrefixOfRoundedDownMax ==
    \A k \in ReadCalls :
        /\ ReadResultConsistent(k)
        /\ ed.calls[k].result.structuredContent.length
               = Min(Len(ed.calls[k].before),
                     LimitInHalves(ed.calls[k].args.maxCharacters) \div 2)

C34_Witness ==
    /\ Len(ed.calls) = 1
    /\ ed.calls[1].tool = "get_file_text_by_path"
    /\ ed.calls[1].before = <<"a", "b", "a">>
    /\ ed.calls[1].args.maxCharacters = FiniteNumber(5)
    /\ ~ed.calls[1].result.isError
    /\ ed.calls[1].result.structuredContent.content = <<"a", "b">>
    /\ ed.calls[1].result.structuredContent.truncated

(* ------------------------------------------------ interleaved file tools *)
(* the calls of append_file_content on path p that returned success *)
AppendedOk(p) ==
    {i \in Invs : /\ fh[i].tool = "append_file_content"
                  /\ fh[i].path = p
                  /\ fh[i].pc = "returned"
                  /\ fh[i].wrote
                  /\ ~fh[i].result[1].isError}

(* C35: when two calls of append_file_content on a path have both returned
   success, the text of the store holds, for every content, at least as
   many lines of that content as calls that appended it. *)
C35_NoAppendLost ==
    \A p \in Paths :
        Cardinality(AppendedOk(p)) >= 2 =>
            /\ store[p] # <<>>
            /\ \A c \in Contents :
                   Cardinality({k \in 1..Len(store[p][1]) : store[p][1][k] = c})
                       >= Cardinality({i \in AppendedOk(p) : fh[i].text = c})

(* the timers of call i that wait in the queue *)
TimersOf(i) == {k \in 1..Len(timers) : timers[k].inv = i}

(* the write of call i was awaited and threw *)
WriteThrew(i) ==
    /\ Mutating(i)
    /\ fh[i].pc = "returned"
    /\ fh[i].newContent # <<>>
    /\ ~fh[i].wrote

(* C37: a call of a mutating tool whose write threw has returned a failure
   envelope, and no cache update and no opening of the editor is scheduled
   or run for it; and when the write of a call succeeds, the cache update
   scheduled in that step, for that call and path, carries the text the
   store has just been given. *)
C37_ScheduledOnlyAfterWrite ==
    /\ [](\A i \in Invs :
             WriteThrew(i) =>
                 /\ fh[i].result[1].isError
                 /\ TimersOf(i) = {}
                 /\ fh[i].upd = "none"
                 /\ ~fh[i].opened)
    /\ [][\A i \in Invs :
             (~fh[i].wrote /\ fh'[i].wrote) =>
                 /\ Len(timers') = Len(timers) + 1
                 /\ timers'[Len(timers')] =
                        [kind |-> "updateCache", inv |-> i,
                         path |-> fh[i].path, text |-> store'[fh[i].path]]
                 /\ store'[fh[i].path] # <<>>
                 /\ ~fh'[i].result[1].isError]_vars

C37_Witness ==
    \E i \in Invs :
        /\ WriteThrew(i)
        /\ fh[i].tool = "replace_specific_text"
        /\ fh[i].result = <<Failure(<<"replacement failed">>)>>
        /\ \E j \in Invs :
              /\ fh[j].tool = "rewrite_file_content"
              /\ fh[j].wrote
              /\ TimersOf(j) # {}
              /\ timers[1].text = store[fh[j].path]

ReadModifyWriteTools ==
    {"replace_file_content_at_position", "append_file_content",
     "replace_specific_text"}

(* the text call j has to write, given the text it read *)
NewTextFrom(j, cur) ==
    CASE fh[j].tool = "append_file_content" -> cur \o <<fh[j].text>>
      [] fh[j].tool = "replace_file_content_at_position" ->
             ReplaceLines(cur, fh[j].startLine, fh[j].text)
      [] fh[j].tool = "replace_specific_text" ->
             ReplaceAll(cur, OldText, fh[j].text)

(* C36: a call of replace_file_content_at_position, append_file_content or
   replace_specific_text made on a path after a write on it has returned
   success and before the cache update of that write has run reads the
   store, not the cache: the text it read is the text of that write (or of
   a write of another call made since), and the text it hands to
   writeFileSimple is computed from the text it read. *)
C36_ReadModifyWriteReadsStore ==
    \A j \in Invs :
        ( /\ fh[j].tool \in ReadModifyWriteTools
          /\ fh[j].pending # <<>>
          /\ fh[j].cur # <<>> ) =>
            /\ fh[j].readFrom = "store"
            /\ \/ fh[j].cur = fh[j].pending
               \/ \E k \in Invs \ {j} :
                      fh[k].wrote /\ fh[k].newContent = fh[j].cur
            /\ fh[j].newContent # <<>> =>
                   fh[j].newContent[1] = NewTextFrom(j, fh[j].cur[1])

C36_Witness ==
    \E i, j \in Invs :
        /\ fh[i].tool = "rewrite_file_content"
        /\ fh[i].pc = "returned"
        /\ fh[i].upd = "scheduled"
        /\ cache[fh[i].path].entry = <<OriginalText>>
        /\ fh[j].tool = "append_file_content"
        /\ fh[j].path = fh[i].path
        /\ fh[j].pending = <<<<"x">>>>
        /\ fh[j].cur = <<<<"x">>>>
        /\ fh[j].newContent = <<<<"x", "y">>>>

====
